---- MODULE Spec2Model ----
(***************************************************************************)
(* AiDevServerWatcher: the port reconciler (PortWatcher, src/src/watcher.ts *)
(* lines 122-262, the multi-base version) and the process reconciler        *)
(* (ProcessWatcher, src/src/process-watcher.ts), with the collaborators of  *)
(* system.ts (getAllTcpPorts, getProcessInfo, killProcess,                  *)
(* getMatchingProcesses) as the environment.                                *)
(*                                                                          *)
(* Every await of the code is a suspension point: the step up to an await   *)
(* is one action, the resumption with the awaited result is another, and    *)
(* the result is drawn from a bounded set.  Strings are sequences of        *)
(* one-character strings so that toLowerCase, includes and trim are         *)
(* computed, not assumed.  Times are milliseconds counted from the model    *)
(* epoch EpochDay 00:00:00 instead of 1970-01-01; every comparison of the   *)
(* code is between differences of times, which the shift preserves.         *)
(***************************************************************************)
EXTENDS Integers, Sequences, FiniteSets, Bags, TLC

VARIABLES
    config,          \* PortWatcher.config
    knownPorts,      \* PortWatcher.knownPorts : port -> pid
    portIntervalId,  \* PortWatcher.intervalId is set
    portPhase,       \* where PortWatcher.start() stands
    portScans,       \* ticks suspended on await getAllTcpPorts()
    portHandlers,    \* bag of tryKill activations suspended on an await
    portOut,         \* what the last step of the port reconciler emitted
    portLogged,      \* history: targets logged under dry-run since the last tick
    tickKills,       \* history, kept when tickKills.on: the tryKill calls of
                     \* the latest tick, and which of them have gone on to
                     \* killProcess
    scanOrder,       \* history, kept when scanOrder.on: how many of the ticks
                     \* suspended on the snapshot started before a tick that
                     \* has got its snapshot since (overtaken), and the
                     \* snapshot of the most recently started tick among
                     \* those that have got theirs (latest)
    pconfig,         \* ProcessWatcher.config
    serviceStartTime,\* ProcessWatcher.serviceStartTime
    knownProcesses,  \* ProcessWatcher.knownProcesses : pid -> ProcessRecord
    procIntervalId,  \* ProcessWatcher.intervalId is set
    procPhase,       \* where ProcessWatcher.start() stands
    procScans,       \* ticks suspended on await getMatchingProcesses()
    procKills,       \* ticks suspended on await killProcess(), with their locals
    clock,           \* the latest value Date.now() returned
    procOut,         \* what the last step of the process reconciler emitted
    lastTick,        \* history: the pids the latest process tick's snapshot
                     \* listed, the pids its step 4 selected, what it logged
                     \* in dry-run, and whether it listed the pids of the tick
                     \* before with none of them deleted in between
    created,         \* history, kept when created.on: pid -> firstSeen of the
                     \* first record made for it, for the pids whose start
                     \* time is their firstSeen; forgotten when a kill of the
                     \* pid succeeds
    listed,          \* history, kept when listed.on: the pids of the latest
                     \* process tick's snapshot, in the order of the snapshot
    stopCalled       \* history, "untracked" when not kept: stop() has been
                     \* called after start() ("yes") or not ("no")

portVars == <<config, knownPorts, portIntervalId, portPhase, portScans,
              portHandlers, portOut, portLogged, scanOrder,
              tickKills>>

procVars == <<pconfig, serviceStartTime, knownProcesses, procIntervalId,
              procPhase, procScans, procKills, clock, procOut, lastTick,
              created, listed>>

vars == <<portVars, procVars, stopCalled>>

-----------------------------------------------------------------------------
(* Strings *)

UpperCase == <<"A","B","C","D","E","F","G","H","I","J","K","L","M",
               "N","O","P","Q","R","S","T","U","V","W","X","Y","Z">>
LowerCase == <<"a","b","c","d","e","f","g","h","i","j","k","l","m",
               "n","o","p","q","r","s","t","u","v","w","x","y","z">>

toLowerChar(c) ==
    IF \E i \in 1..26 : UpperCase[i] = c
    THEN LowerCase[CHOOSE i \in 1..26 : UpperCase[i] = c]
    ELSE c

\* String.prototype.toLowerCase
toLowerCase(s) == [i \in 1..Len(s) |-> toLowerChar(s[i])]

\* String.prototype.includes
includes(s, t) ==
    \E i \in 0..(Len(s) - Len(t)) : SubSeq(s, i + 1, i + Len(t)) = t

-----------------------------------------------------------------------------
(* Bounds and input domains of the port reconciler *)

MaxInFlight == 2     \* port ticks suspended on the snapshot at the same time
MaxHandlers == 1     \* tryKill activations suspended at the same time, when
                     \* a tick adds its own to those of earlier ticks

PortUniverse == 3000..3002          \* ports a snapshot may list
PortPids == {111, 222}              \* owner pids a snapshot may list

\* process-name filters (--filter)
FilterChoices == { <<>>, << <<"p","m">>, <<"N","o">> >> }

\* command lines getProcessInfo may report
Commands == { <<"n","O","d","e">>, <<"c","m","d">> }

\* base ports with their scan range: one window over the whole universe, one
\* that leaves port 3000 below the base, and two windows that share port 3001
Layouts == { [basePorts |-> <<3000>>, range |-> 2],
             [basePorts |-> <<3001>>, range |-> 1],
             [basePorts |-> <<3001, 3000>>, range |-> 1] }

PortConfigs ==
    { [basePorts |-> l.basePorts, range |-> l.range, strategy |-> s,
       filter |-> f, dryRun |-> d] :
      l \in Layouts, s \in {"chain", "kill-base"}, f \in FilterChoices,
      d \in BOOLEAN }

\* getAllTcpPorts(): any map port -> pid; the empty map is also what a failed
\* enumeration yields (catch, part_002 lines 19-22)
PortSnapshots == UNION { [S -> PortPids] : S \in SUBSET PortUniverse }

\* getProcessInfo(pid): null, or a record with the command line
NoInfo == [found |-> FALSE, command |-> <<>>]
\* no tryKill activation
NoHandler == [port |-> -1, pid |-> -1, trig |-> -1, stage |-> "none"]
InfoResults == {NoInfo} \cup { [found |-> TRUE, command |-> c] : c \in Commands }

-----------------------------------------------------------------------------
(* PortWatcher *)

Min(S) == CHOOSE x \in S : \A y \in S : x <= y

\* one emitted effect: a console line or a call of a collaborator
Ev(kind, port, pid, trig) ==
    [kind |-> kind, port |-> port, pid |-> pid, trig |-> trig]

\* getRelevantBase without the lower end of the window
getRelevantBase_NoLowerEnd(port) ==
    LET hits == { i \in 1..Len(config.basePorts) :
                    port <= config.basePorts[i] + config.range }
    IN  IF hits = {} THEN -1 ELSE config.basePorts[Min(hits)]

getRelevantBase(port) ==
    LET hits == { i \in 1..Len(config.basePorts) :
                    /\ port >= config.basePorts[i]
                    /\ port <= config.basePorts[i] + config.range }
    IN  IF hits = {} THEN -1 ELSE config.basePorts[Min(hits)]

\* an empty filter taken to allow every process
matchesFilter_EmptyAllowsAll(info) ==
    IF Len(config.filter) = 0 THEN TRUE
    ELSE LET cmd == toLowerCase(info.command)
         IN  \E i \in 1..Len(config.filter) :
                 includes(cmd, toLowerCase(config.filter[i]))

matchesFilter(info) ==
    IF Len(config.filter) = 0 THEN FALSE
    ELSE LET cmd == toLowerCase(info.command)
         IN  \E i \in 1..Len(config.filter) :
                 includes(cmd, toLowerCase(config.filter[i]))

\* chain taken to name the port after the new one
targetPort_ChainNext(newPort, basePort) ==
    IF config.strategy = "chain" THEN newPort + 1
    ELSE IF config.strategy = "kill-base"
         THEN IF newPort > basePort THEN basePort ELSE -1
         ELSE -1

\* kill-base taken to name the port before the new one
targetPort_KillBasePrev(newPort, basePort) ==
    IF config.strategy = "chain" THEN newPort - 1
    ELSE IF config.strategy = "kill-base"
         THEN IF newPort > basePort THEN newPort - 1 ELSE -1
         ELSE -1

\* handleNewPort, lines 202-212: the port the strategy names, -1 for none
targetPort(newPort, basePort) ==
    IF config.strategy = "chain" THEN newPort - 1
    ELSE IF config.strategy = "kill-base"
         THEN IF newPort > basePort THEN basePort ELSE -1
         ELSE -1

\* the check of the target against the base port left out
handleNewPort_NoBaseCheck(newPort, newPid, basePort) ==
    LET tp == targetPort(newPort, basePort)
    IN  IF tp \in DOMAIN knownPorts
        THEN LET targetPid == knownPorts[tp]
             IN  IF targetPid = 0 \/ targetPid = newPid
                 THEN {}
                 ELSE { [port |-> tp, pid |-> targetPid, trig |-> newPort] }
        ELSE {}

\* handleNewPort up to its call of tryKill: the tryKill calls it makes (at most
\* one), evaluated against the known-set as it stands during the tick's loop
handleNewPort(newPort, newPid, basePort) ==
    LET tp == targetPort(newPort, basePort)
    IN  IF tp >= basePort /\ tp \in DOMAIN knownPorts
        THEN LET targetPid == knownPorts[tp]
             IN  IF targetPid = 0 \/ targetPid = newPid
                 THEN {}
                 ELSE { [port |-> tp, pid |-> targetPid, trig |-> newPort] }
        ELSE {}

\* the loop of tick treating every monitored port of the snapshot as new
newPorts_AllListed(allPorts) ==
    { p \in DOMAIN allPorts : getRelevantBase(p) # -1 }

\* the loop of tick treating a known port with another owner as new too
newPorts_OrChanged(allPorts) ==
    { p \in DOMAIN allPorts :
        /\ getRelevantBase(p) # -1
        /\ p \in DOMAIN knownPorts => knownPorts[p] # allPorts[p] }

\* the ports of a snapshot the loop of tick treats as new
newPorts(allPorts) ==
    { p \in DOMAIN allPorts :
        getRelevantBase(p) # -1 /\ p \notin DOMAIN knownPorts }

\* tick, lines 176-181: the monitored known ports whose owner pid has changed
changedPorts(allPorts) ==
    { p \in DOMAIN allPorts \cap DOMAIN knownPorts :
        getRelevantBase(p) # -1 /\ knownPorts[p] # allPorts[p] }

\* the tryKill calls of one tick if the targets were looked up in the snapshot
\* of the tick instead of the known-set
gates_FromSnapshot(allPorts) ==
    { [port |-> targetPort(p, getRelevantBase(p)),
       pid |-> allPorts[targetPort(p, getRelevantBase(p))], trig |-> p] :
        p \in { q \in newPorts(allPorts) :
                  /\ targetPort(q, getRelevantBase(q)) >= getRelevantBase(q)
                  /\ targetPort(q, getRelevantBase(q)) \in DOMAIN allPorts
                  /\ allPorts[targetPort(q, getRelevantBase(q))] # allPorts[q] } }

\* the tryKill calls of one tick
gates(allPorts) ==
    UNION { handleNewPort(p, allPorts[p], getRelevantBase(p)) :
              p \in newPorts(allPorts) }

\* the port reconciler as constructed, with phase "new", or, in a deployment
\* that runs the process reconciler, never constructed, with phase "off"
PortInit(configs, phase) ==
    /\ config \in configs
    /\ knownPorts = <<>>
    /\ portIntervalId = FALSE
    /\ portPhase = phase
    /\ portScans = 0
    /\ portHandlers = EmptyBag
    /\ portOut = [op |-> "init", h |-> NoHandler, res |-> NoInfo, ev |-> {}]
    /\ portLogged = {}

NoPortConfig == [basePorts |-> <<>>, range |-> 0, strategy |-> "chain",
                 filter |-> <<>>, dryRun |-> FALSE]

\* start() up to its await getAllTcpPorts()
PortStart ==
    /\ portPhase = "new"
    /\ portPhase' = "scanning"
    /\ portOut' = [op |-> "start", h |-> NoHandler, res |-> NoInfo, ev |-> {}]
    /\ UNCHANGED <<config, knownPorts, portIntervalId, portScans, portHandlers>>
    /\ UNCHANGED portLogged
    /\ UNCHANGED stopCalled
    /\ UNCHANGED <<scanOrder, tickKills>>
    /\ UNCHANGED procVars

\* start() resumed with the initial scan: the known-set is set, the interval armed
PortStartResume(allPorts) ==
    /\ portPhase = "scanning"
    /\ portPhase' = "started"
    /\ knownPorts' = allPorts
    /\ portIntervalId' = TRUE
    /\ portOut' = [op |-> "scan", h |-> NoHandler, res |-> NoInfo, ev |-> {}]
    /\ UNCHANGED <<config, portScans, portHandlers>>
    /\ UNCHANGED portLogged
    /\ UNCHANGED stopCalled
    /\ scanOrder' = IF scanOrder.on
                     THEN [scanOrder EXCEPT !.latest = allPorts] ELSE scanOrder
    /\ UNCHANGED tickKills
    /\ UNCHANGED procVars

PortStop ==
    /\ portPhase # "off"
    /\ portIntervalId' = FALSE
    /\ portOut' = [op |-> "stop", h |-> NoHandler, res |-> NoInfo, ev |-> {}]
    /\ UNCHANGED <<config, knownPorts, portPhase, portScans, portHandlers>>
    /\ stopCalled' = IF stopCalled = "untracked" \/ portPhase = "new"
                      THEN stopCalled ELSE "yes"
    /\ UNCHANGED portLogged
    /\ UNCHANGED <<scanOrder, tickKills>>
    /\ UNCHANGED procVars

\* the interval fires: tick() runs up to its await getAllTcpPorts()
PortTimer ==
    /\ portIntervalId
    /\ portScans < MaxInFlight
    /\ portScans' = portScans + 1
    /\ portOut' = [op |-> "timer", h |-> NoHandler, res |-> NoInfo, ev |-> {}]
    /\ UNCHANGED <<config, knownPorts, portIntervalId, portPhase, portHandlers>>
    /\ UNCHANGED portLogged
    /\ UNCHANGED stopCalled
    /\ UNCHANGED <<scanOrder, tickKills>>
    /\ UNCHANGED procVars

\* tick() resumed with the snapshot: the loop (handleNewPort runs, un-awaited,
\* up to the await in tryKill) and the replacement of the known-set
PortTick(allPorts) ==
    /\ portScans > 0
    /\ portScans' = portScans - 1
    /\ LET loop(g) ==
               /\ \/ portHandlers = EmptyBag
                  \/ BagCardinality(portHandlers) + Cardinality(g) <= MaxHandlers
               /\ portHandlers' = portHandlers (+)
                                    SetToBag({ [port |-> x.port, pid |-> x.pid,
                                                trig |-> x.trig, stage |-> "info"] :
                                               x \in g })
               /\ tickKills' = IF tickKills.on
                                 THEN [tickKills EXCEPT !.gates = g, !.sent = {}]
                                 ELSE tickKills
               /\ portOut' =
                    [op |-> "tick", h |-> NoHandler, res |-> NoInfo,
                     ev |-> { Ev("getProcessInfo", x.port, x.pid, x.trig) : x \in g }
                              \cup { Ev("detected", q, allPorts[q], getRelevantBase(q)) :
                                       q \in newPorts(allPorts) }
                              \cup { Ev("pidChanged", q, allPorts[q], knownPorts[q]) :
                                       q \in changedPorts(allPorts) }]
       IN  loop(gates(allPorts))
    /\ knownPorts' = allPorts
    /\ scanOrder' \in
          IF scanOrder.on
          THEN { [scanOrder EXCEPT !.overtaken = @ - 1] :
                   i \in 1..scanOrder.overtaken }
               \cup { [scanOrder EXCEPT !.overtaken = @ + k - 1, !.latest = allPorts] :
                        k \in 1..(portScans - scanOrder.overtaken) }
          ELSE { scanOrder }
    /\ UNCHANGED <<config, portIntervalId, portPhase>>
    /\ portLogged' = {}
    /\ UNCHANGED stopCalled
    /\ UNCHANGED procVars

\* tryKill without the dry-run branch
tryKill_IgnoresDryRun(h, info) ==
    IF ~info.found
    THEN [ev |-> { Ev("skipGone", h.port, h.pid, h.trig) }, kill |-> FALSE]
    ELSE IF ~matchesFilter(info)
    THEN [ev |-> { Ev("skipFilter", h.port, h.pid, h.trig) }, kill |-> FALSE]
    ELSE [ev |-> { Ev("KILL", h.port, h.pid, h.trig),
                   Ev("killProcess", h.port, h.pid, h.trig) }, kill |-> TRUE]

\* what tryKill does once getProcessInfo has returned info, lines 228-250:
\* the effects, and whether it goes on to await killProcess
tryKill(h, info) ==
    IF ~info.found
    THEN [ev |-> { Ev("skipGone", h.port, h.pid, h.trig) }, kill |-> FALSE]
    ELSE IF ~matchesFilter(info)
    THEN [ev |-> { Ev("skipFilter", h.port, h.pid, h.trig) }, kill |-> FALSE]
    ELSE IF config.dryRun
    THEN [ev |-> { Ev("KILL", h.port, h.pid, h.trig),
                   Ev("dryRun", h.port, h.pid, h.trig) }, kill |-> FALSE]
    ELSE [ev |-> { Ev("KILL", h.port, h.pid, h.trig),
                   Ev("killProcess", h.port, h.pid, h.trig) }, kill |-> TRUE]

\* tryKill resumed with the result of getProcessInfo(pid)
PortInfo(h, info) ==
    /\ BagIn(h, portHandlers)
    /\ h.stage = "info"
    /\ LET resumed(r) ==
               /\ portHandlers' =
                     IF r.kill
                     THEN (portHandlers (-) SetToBag({h}))
                              (+) SetToBag({ [h EXCEPT !.stage = "kill"] })
                     ELSE portHandlers (-) SetToBag({h})
               /\ portOut' = [op |-> "info", h |-> h, res |-> info, ev |-> r.ev]
               /\ tickKills' =
                     IF /\ tickKills.on
                        /\ r.kill
                        /\ [port |-> h.port, pid |-> h.pid, trig |-> h.trig]
                              \in tickKills.gates
                     THEN [tickKills EXCEPT !.sent = @ \cup { [port |-> h.port,
                                                               pid |-> h.pid,
                                                               trig |-> h.trig] }]
                     ELSE tickKills
               /\ portLogged' = portLogged \cup
                                   { [port |-> e.port, pid |-> e.pid] :
                                       e \in { x \in r.ev : x.kind = "dryRun" } }
       IN  resumed(tryKill(h, info))
    /\ UNCHANGED <<config, knownPorts, portIntervalId, portPhase, portScans>>
    /\ UNCHANGED stopCalled
    /\ UNCHANGED scanOrder
    /\ UNCHANGED procVars

\* tryKill resumed with the result of killProcess(pid, true)
PortKilled(h, success) ==
    /\ BagIn(h, portHandlers)
    /\ h.stage = "kill"
    /\ portHandlers' = portHandlers (-) SetToBag({h})
    /\ portOut' = [op |-> "killed", h |-> h, res |-> NoInfo,
                   ev |-> { Ev(IF success THEN "success" ELSE "error",
                               h.port, h.pid, h.trig) }]
    /\ UNCHANGED <<config, knownPorts, portIntervalId, portPhase, portScans>>
    /\ UNCHANGED portLogged
    /\ UNCHANGED stopCalled
    /\ UNCHANGED <<scanOrder, tickKills>>
    /\ UNCHANGED procVars

PortNext ==
    \/ PortStart
    \/ \E allPorts \in PortSnapshots : PortStartResume(allPorts)
    \/ PortStop
    \/ PortTimer
    \/ \E allPorts \in PortSnapshots : PortTick(allPorts)
    \/ \E h \in BagToSet(portHandlers) : \E info \in InfoResults : PortInfo(h, info)
    \/ \E h \in BagToSet(portHandlers) : \E success \in BOOLEAN : PortKilled(h, success)


-----------------------------------------------------------------------------
(* Bounds and input domains of the process reconciler *)

MaxSnap == 3         \* processes one snapshot lists
MaxProcTicks == 1    \* process ticks in flight at the same time

\* the values Date.now() may return, in ms from the model epoch; the first is
\* the watcher's start
TimePoints == {60000, 120000, 150001}
ServiceStart == Min(TimePoints)

MaxAgeChoices == {0, 1}             \* --max-age in minutes, 0 when not given

\* WMI CreationDate strings: 2026-02-18 23:59:00, 2026-02-19 00:00:59 and
\* 2026-02-19 00:02:00 (the time of a tick), with a fraction and a timezone
\* suffix
DateOld == <<"2","0","2","6","0","2","1","8","2","3","5","9","0","0",".","4","+","3">>
DateMid == <<"2","0","2","6","0","2","1","9","0","0","0","0","5","9",".","0","+","3">>
DateNew == <<"2","0","2","6","0","2","1","9","0","0","0","2","0","0">>

ProcInfo(pid, command, ppid, creationDate) ==
    [pid |-> pid, command |-> command, ppid |-> ppid, creationDate |-> creationDate]

\* the processes getMatchingProcesses may list; ppid and creationDate are a
\* sequence of no element when the field is undefined (the Unix branch sets
\* neither)
ProcTable ==
    { ProcInfo(1, <<"a">>,      <<10>>, DateOld),
      ProcInfo(2, <<"a", " ">>, <<10>>, DateNew),
      ProcInfo(3, <<"a">>,      <<20>>, DateMid),
      ProcInfo(4, <<"a">>,      <<>>,   <<>>),
      ProcInfo(5, <<"b">>,      <<20>>, DateOld) }

\* a CreationDate string that is cut off after 13 digits
DateShort == <<"2","0","2","6","0","2","1","9","0","0","0","2","0">>

\* the processes of a host that lists pid 0 (the idle process of Windows, the
\* kernel task of macOS): pid 0 itself without parent pid, children of pid 0,
\* and a process whose creation date is cut off
WideTable ==
    { ProcInfo(0, <<"a">>, <<>>,  <<>>),
      ProcInfo(6, <<"a">>, <<0>>, DateOld),
      ProcInfo(7, <<"a">>, <<>>,  DateShort),
      ProcInfo(8, <<"a">>, <<0>>, DateNew) }

RECURSIVE SeqsUpTo(_, _)
\* the sequences of at most n elements of S without a repeated pid
SeqsUpTo(S, n) ==
    IF n = 0 THEN { <<>> }
    ELSE LET shorter == SeqsUpTo(S, n - 1)
         IN  shorter \cup
             { Append(q, x) : q \in { r \in shorter : Len(r) = n - 1 },
                              x \in S }

NoRepeat(q) == \A i, j \in 1..Len(q) : q[i].pid = q[j].pid => i = j

\* getMatchingProcesses(filter): any list of processes; the empty list is also
\* what a failed enumeration yields (catch, part_002 lines 301-304)
ProcSnapshots == { q \in SeqsUpTo(ProcTable, MaxSnap) : NoRepeat(q) }

\* getMatchingProcesses(filter) on the host that lists pid 0
WideSnapshots == { q \in SeqsUpTo(WideTable, MaxSnap) : NoRepeat(q) }

ProcConfigs ==
    [ filter : { <<>>, << <<"a">> >> },
      dryRun : BOOLEAN,
      maxAge : MaxAgeChoices ]

-----------------------------------------------------------------------------
(* ProcessWatcher *)

Digits == <<"0","1","2","3","4","5","6","7","8","9">>
isDigit(c) == \E d \in 1..10 : Digits[d] = c
digitVal(c) == (CHOOSE d \in 1..10 : Digits[d] = c) - 1

RECURSIVE parseInt(_)
\* parseInt of a string of decimal digits
parseInt(s) ==
    IF Len(s) = 0 THEN 0
    ELSE 10 * parseInt(SubSeq(s, 1, Len(s) - 1)) + digitVal(s[Len(s)])

\* days from 1970-01-01 to the civil date y-m-d (m from 1)
daysFromCivil(y, m, d) ==
    LET yy  == IF m <= 2 THEN y - 1 ELSE y
        era == yy \div 400
        yoe == yy - era * 400
        mp  == IF m > 2 THEN m - 3 ELSE m + 9
        doy == (153 * mp + 2) \div 5 + d - 1
        doe == yoe * 365 + yoe \div 4 - yoe \div 100 + doy
    IN  era * 146097 + doe - 719468

EpochDay == daysFromCivil(2026, 2, 19)

\* new Date(year, month, day, hour, minute, second).getTime(), month from 0,
\* in ms from the model epoch
dateGetTime(year, month, day, hour, minute, second) ==
    (((daysFromCivil(year, month + 1, day) - EpochDay) * 24 + hour) * 60 + minute)
        * 60000 + second * 1000

\* matchesDate that wants the whole string to be 14 digits
matchesDate_Whole(cd) == Len(cd) = 14 /\ \A i \in 1..14 : isDigit(cd[i])

\* lines 222-232: the time a CreationDate string stands for, when it starts
\* with 14 digits (the regular expression of line 223)
matchesDate(cd) == Len(cd) >= 14 /\ \A i \in 1..14 : isDigit(cd[i])

parseCreationDate(cd) ==
    dateGetTime(parseInt(SubSeq(cd, 1, 4)),
                parseInt(SubSeq(cd, 5, 6)) - 1,
                parseInt(SubSeq(cd, 7, 8)),
                parseInt(SubSeq(cd, 9, 10)),
                parseInt(SubSeq(cd, 11, 12)),
                parseInt(SubSeq(cd, 13, 14)))

\* parseCreationDate on the strings the snapshots carry, computed once
creationTime ==
    [ cd \in { x.creationDate : x \in { y \in ProcTable \cup WideTable :
                                           matchesDate(y.creationDate) } }
        |-> parseCreationDate(cd) ]

getStartTime(record) ==
    IF record.creationDate \in DOMAIN creationTime
    THEN creationTime[record.creationDate]
    ELSE record.firstSeen

isSpace(c) == c \in {" ", "\t", "\n", "\r"}

RECURSIVE trim(_)
\* String.prototype.trim
trim(s) ==
    IF Len(s) = 0 THEN s
    ELSE IF isSpace(s[1]) THEN trim(Tail(s))
    ELSE IF isSpace(s[Len(s)]) THEN trim(SubSeq(s, 1, Len(s) - 1))
    ELSE s

\* trim on the command lines the snapshots carry, computed once
cmdKey == [ c \in { x.command : x \in ProcTable \cup WideTable } |-> trim(c) ]

\* x put into the sorted sequence init behind the elements not later than it
insertByTime(init, x, n) ==
    SubSeq(init, 1, n) \o <<x>> \o SubSeq(init, n + 1, Len(init))

RECURSIVE sortByTime(_)
\* Array.prototype.sort((a, b) => a.t - b.t) on records with a field t: stable
sortByTime(q) ==
    IF Len(q) <= 1 THEN q
    ELSE LET place(init, x) ==
                 insertByTime(init, x,
                              Cardinality({ i \in 1..Len(init) : init[i].t <= x.t }))
         IN  place(sortByTime(SubSeq(q, 1, Len(q) - 1)), q[Len(q)])

RECURSIVE firsts(_)
\* the values of a sequence in the order of their first occurrence
firsts(q) ==
    IF Len(q) = 0 THEN <<>>
    ELSE LET add(init, x) ==
                 IF \E i \in 1..Len(init) : init[i] = x THEN init ELSE Append(init, x)
         IN  add(firsts(SubSeq(q, 1, Len(q) - 1)), q[Len(q)])

RECURSIVE flatten(_)
flatten(qq) == IF Len(qq) = 0 THEN <<>> ELSE Head(qq) \o flatten(Tail(qq))

\* the record of a known pid stamped again with the time of the tick
recordOf_SeenAgain(proc, now) ==
    IF proc.pid \in DOMAIN knownProcesses
    THEN [knownProcesses[proc.pid] EXCEPT !.firstSeen = now]
    ELSE [pid |-> proc.pid, command |-> proc.command, firstSeen |-> now,
          creationDate |-> proc.creationDate, ppid |-> proc.ppid]

\* recordOf that makes a new record also for a pid already known
recordOf_AlwaysNew(proc, now) ==
    [pid |-> proc.pid, command |-> proc.command, firstSeen |-> now,
     creationDate |-> proc.creationDate, ppid |-> proc.ppid]

\* tick, lines 99-125, first half: the record of a listed process, the known
\* one when the pid is known, a new one otherwise
recordOf(proc, now) ==
    IF proc.pid \in DOMAIN knownProcesses
    THEN knownProcesses[proc.pid]
    ELSE [pid |-> proc.pid, command |-> proc.command, firstSeen |-> now,
          creationDate |-> proc.creationDate, ppid |-> proc.ppid]

\* steps 2 and 3 without the deletion of the pids the snapshot does not list
mergeSnapshot_NoPurge(currentProcesses, now) ==
    LET currentPids == { currentProcesses[i].pid : i \in 1..Len(currentProcesses) }
    IN  [ pid \in currentPids \cup DOMAIN knownProcesses |->
            IF pid \in DOMAIN knownProcesses THEN knownProcesses[pid]
            ELSE recordOf(currentProcesses[
                             Min({ i \in 1..Len(currentProcesses) :
                                     currentProcesses[i].pid = pid })], now) ]

\* tick, steps 2 and 3: the known-set after the snapshot has been merged in and
\* the pids it does not list have been deleted
mergeSnapshot(currentProcesses, now) ==
    LET currentPids == { currentProcesses[i].pid : i \in 1..Len(currentProcesses) }
    IN  [ pid \in currentPids |->
            recordOf(currentProcesses[
                        Min({ i \in 1..Len(currentProcesses) :
                                currentProcesses[i].pid = pid })], now) ]

RECURSIVE setNoPpid(_, _)
\* lines 151-154: clusters.set(-r.pid, [r]) for each record without ppid; a Map
\* keeps the place of a key it already holds and replaces its value
setNoPpid(clusters, noPpidRecords) ==
    IF Len(noPpidRecords) = 0 THEN clusters
    ELSE LET set(r, hit) ==
                 IF hit = {}
                 THEN Append(clusters, [ppid |-> -r.pid, members |-> <<r>>])
                 ELSE [clusters EXCEPT ![Min(hit)].members = <<r>>]
             r == Head(noPpidRecords)
         IN  setNoPpid(set(r, { i \in 1..Len(clusters) : clusters[i].ppid = -r.pid }),
                       Tail(noPpidRecords))

\* clustersOf keyed by the pid of the record instead of its parent pid
clustersOf_ByPid(records) ==
    [i \in 1..Len(records) |-> [ppid |-> records[i].pid, members |-> <<records[i]>>]]

\* lines 138-154: the clusters Map of the records of one command, as the list
\* of its entries in insertion order
clustersOf(records) ==
    LET hasPpid(r) == Len(r.ppid) = 1
        noPpid(r)  == Len(r.ppid) = 0
        byPpid(withPpid, keys) ==
            [ k \in 1..Len(keys) |->
                [ppid |-> keys[k],
                 members |-> SelectSeq(withPpid, LAMBDA r : r.ppid[1] = keys[k])] ]
        grouped(withPpid) ==
            byPpid(withPpid, firsts([i \in 1..Len(withPpid) |-> withPpid[i].ppid[1]]))
    IN  setNoPpid(grouped(SelectSeq(records, hasPpid)), SelectSeq(records, noPpid))

\* clusterInfos that takes the first member in listing order for the earliest
clusterInfos_Unsorted(records) ==
    LET info(c) == [ppid |-> c.ppid, members |-> c.members,
                    t |-> getStartTime(c.members[1])]
        infos(cl) == [i \in 1..Len(cl) |-> info(cl[i])]
    IN  sortByTime(infos(clustersOf(records)))

\* lines 161-172: the members of each cluster sorted by start time, the
\* clusters sorted by the start time of their first member
clusterInfos(records) ==
    LET untimed(timed) == [i \in 1..Len(timed) |-> timed[i].r]
        sortedMembers(c) ==
            untimed(sortByTime([i \in 1..Len(c.members) |->
                                  [t |-> getStartTime(c.members[i]),
                                   r |-> c.members[i]]]))
        info(ppid, m) == [ppid |-> ppid, members |-> m, t |-> getStartTime(m[1])]
        infos(cl) == [i \in 1..Len(cl) |-> info(cl[i].ppid, sortedMembers(cl[i]))]
    IN  sortByTime(infos(clustersOf(records)))

\* lines 136-191, for the records of one command: the pids passed to kill, in
\* order
oldClusterPids(records) ==
    IF Len(records) > 1
    THEN LET old(ci) ==
                 IF Len(ci) > 1
                 THEN flatten([i \in 1..(Len(ci) - 1) |->
                                 [j \in 1..Len(ci[i].members) |-> ci[i].members[j].pid]])
                 ELSE <<>>
         IN  old(clusterInfos(records))
    ELSE <<>>

\* step 4 of tick: byCommand in insertion order, and for each command the pids
\* of its old clusters
step4Pids(currentProcesses, known) ==
    LET perCommand(recs, cmds) ==
            flatten([k \in 1..Len(cmds) |->
                       oldClusterPids(SelectSeq(recs,
                                                LAMBDA r : cmdKey[r.command] = cmds[k]))])
        byCommand(recs) ==
            perCommand(recs, firsts([i \in 1..Len(recs) |-> cmdKey[recs[i].command]]))
    IN  byCommand([i \in 1..Len(currentProcesses) |-> known[currentProcesses[i].pid]])

\* maxAgeExceeded on the age since the start of the process, without the grace
\* period
maxAgeExceeded_NoGrace(record, now) ==
    now - getStartTime(record) > pconfig.maxAge * 60 * 1000

\* step 5 of tick, lines 209-212: the record is older than maxAge
maxAgeExceeded(record, now) ==
    LET maxAgeMs == pconfig.maxAge * 60 * 1000
        effectiveStart == IF getStartTime(record) >= serviceStartTime
                          THEN getStartTime(record) ELSE serviceStartTime
        age == now - effectiveStart
    IN  age > maxAgeMs

\* step 5 run also over the records the tick has just purged
step5Pids_Stale(known, now) ==
    IF pconfig.maxAge > 0
    THEN { pid \in DOMAIN known : maxAgeExceeded(known[pid], now) }
           \cup { pid \in DOMAIN knownProcesses :
                    maxAgeExceeded(knownProcesses[pid], now) }
    ELSE {}

\* step 5 of tick: the known records it passes to kill
step5Pids(known, now) ==
    IF pconfig.maxAge > 0
    THEN { pid \in DOMAIN known : maxAgeExceeded(known[pid], now) }
    ELSE {}

\* one emitted effect of the process reconciler
PEv(kind, pid, why) == [kind |-> kind, pid |-> pid, why |-> why]

\* what a step emitted; for a step of a tick also the tick's now, whether the
\* tick returned in this step, and the pids step 5 tried to kill without success
POut(op, ev, now, ret, tried) ==
    [op |-> op, ev |-> ev, now |-> now, ret |-> ret, tried |-> tried]

\* the process reconciler as constructed, with phase "new", or never
\* constructed, with phase "off"
ProcInit(configs, phase) ==
    /\ pconfig \in configs
    /\ serviceStartTime = ServiceStart
    /\ knownProcesses = <<>>
    /\ procIntervalId = FALSE
    /\ procPhase = phase
    /\ procScans = 0
    /\ procKills = {}
    /\ clock = ServiceStart
    /\ procOut = POut("init", {}, 0, FALSE, {})
    /\ lastTick = [pids |-> {}, step4 |-> {}, ev |-> {}, again |-> FALSE]

NoProcConfig == [filter |-> <<>>, dryRun |-> FALSE, maxAge |-> 0]

\* time passes
ClockAdvance ==
    /\ procPhase # "off"
    /\ \E t \in TimePoints : t > clock /\ clock' = t
    /\ UNCHANGED <<pconfig, serviceStartTime, knownProcesses, procIntervalId,
                   procPhase, procScans, procKills, procOut, lastTick,
                   created, listed, stopCalled>>
    /\ UNCHANGED portVars

\* start() with no filter: the error line and return
ProcStartNoFilter ==
    /\ procPhase = "new"
    /\ Len(pconfig.filter) = 0
    /\ procPhase' = "refused"
    /\ procOut' = POut("refused", {}, 0, FALSE, {})
    /\ UNCHANGED <<pconfig, serviceStartTime, knownProcesses, procIntervalId,
                   procScans, procKills, clock>>
    /\ UNCHANGED <<lastTick, created, listed, stopCalled>>
    /\ UNCHANGED portVars

\* start() arming the interval before its first tick
ProcStart_ArmsFirst ==
    /\ procPhase = "new"
    /\ Len(pconfig.filter) > 0
    /\ procPhase' = "firstTick"
    /\ procIntervalId' = TRUE
    /\ procScans' = procScans + 1
    /\ procOut' = POut("start", {}, 0, FALSE, {})
    /\ UNCHANGED <<pconfig, serviceStartTime, knownProcesses, procKills, clock>>
    /\ UNCHANGED <<lastTick, created, listed, stopCalled>>
    /\ UNCHANGED portVars

\* start() up to the await of getMatchingProcesses in its first tick
ProcStart ==
    /\ procPhase = "new"
    /\ Len(pconfig.filter) > 0
    /\ procPhase' = "firstTick"
    /\ procScans' = procScans + 1
    /\ procOut' = POut("start", {}, 0, FALSE, {})
    /\ UNCHANGED <<pconfig, serviceStartTime, knownProcesses, procIntervalId,
                   procKills, clock>>
    /\ UNCHANGED <<lastTick, created, listed, stopCalled>>
    /\ UNCHANGED portVars

ProcStop ==
    /\ procPhase # "off"
    /\ procIntervalId' = FALSE
    /\ procOut' = POut("stop", {}, 0, FALSE, {})
    /\ UNCHANGED <<pconfig, serviceStartTime, knownProcesses, procPhase,
                   procScans, procKills, clock>>
    /\ stopCalled' = IF stopCalled = "untracked" \/ procPhase = "new"
                      THEN stopCalled ELSE "yes"
    /\ UNCHANGED <<lastTick, created, listed>>
    /\ UNCHANGED portVars

\* the interval fires: tick() runs up to its await getMatchingProcesses()
ProcTimer ==
    /\ procIntervalId
    /\ procScans + Cardinality(procKills) < MaxProcTicks
    /\ procScans' = procScans + 1
    /\ procOut' = POut("timer", {}, 0, FALSE, {})
    /\ UNCHANGED <<pconfig, serviceStartTime, knownProcesses, procIntervalId,
                   procPhase, procKills, clock>>
    /\ UNCHANGED <<lastTick, created, listed, stopCalled>>
    /\ UNCHANGED portVars

\* a tick has returned: when it is the one start() awaits, start() arms the
\* interval (line 77)
afterTick ==
    IF procPhase = "firstTick"
    THEN procPhase' = "started" /\ procIntervalId' = TRUE
    ELSE UNCHANGED <<procPhase, procIntervalId>>

\* the suspended ticks after the entries of the pids in deleted have left the
\* Map: an entry set again later is a new entry to the Map iteration of step 5
forget(kills, deleted) ==
    { [a EXCEPT !.tried = a.tried \ deleted] : a \in kills }

\* a live tick goes on after a kill has returned, or after step 3: the next
\* kill of step 4, else the next kill of step 5, else the tick returns.  The
\* Map iteration of step 5 visits every entry once; which entry it reaches
\* first is left open here.  others are the other suspended ticks.
continueTick(known, queue, tried, now, evSoFar, op, others) ==
    IF Len(queue) > 0
    THEN /\ procKills' = others \cup
                           { [stage |-> "kill4", pid |-> Head(queue),
                              queue |-> Tail(queue), tried |-> tried, now |-> now] }
         /\ procOut' = POut(op, evSoFar \cup { PEv("killProcess", Head(queue), "cluster") },
                             now, FALSE, tried)
         /\ UNCHANGED <<procPhase, procIntervalId>>
    ELSE LET rest == step5Pids(known, now) \ tried
         IN  IF rest # {}
             THEN \E pid \in rest :
                    /\ procKills' = others \cup
                                      { [stage |-> "kill5", pid |-> pid, queue |-> <<>>,
                                         tried |-> tried \cup {pid}, now |-> now] }
                    /\ procOut' = POut(op, evSoFar \cup { PEv("killProcess", pid, "maxAge") },
                                        now, FALSE, tried \cup {pid})
                    /\ UNCHANGED <<procPhase, procIntervalId>>
             ELSE /\ procKills' = others
                  /\ procOut' = POut(op, evSoFar, now, TRUE, tried)
                  /\ afterTick

\* dryRunEvents that logs a pid only in the tick that detects it
dryRunEvents_Once(queue, known, now) ==
    { PEv("dryRun", queue[i], "cluster") :
        i \in { j \in 1..Len(queue) : queue[j] \notin DOMAIN knownProcesses } }
        \cup { PEv("dryRun", pid, "maxAge") :
                 pid \in step5Pids(known, now) \ DOMAIN knownProcesses }

\* what kill() logs in dry-run for the pids steps 4 and 5 hand to it
dryRunEvents(queue, known, now) ==
    { PEv("dryRun", queue[i], "cluster") : i \in 1..Len(queue) }
        \cup { PEv("dryRun", pid, "maxAge") : pid \in step5Pids(known, now) }

\* tick() resumed with the snapshot (now is read then, line 91): steps 2 and 3,
\* and then either the whole
\* of steps 4 and 5 (dry-run: kill returns without suspending) or steps 4 and
\* 5 up to the first await killProcess
steps4and5(currentProcesses, currentPids, known, queue, now, others) ==
    /\ knownProcesses' = known
    /\ listed' = IF listed.on
                  THEN [listed EXCEPT !.order =
                          [i \in 1..Len(currentProcesses) |-> currentProcesses[i].pid]]
                  ELSE listed
    /\ created' = IF created.on
                   THEN [created EXCEPT !.at =
                           [pid \in DOMAIN created.at \cup
                                     { q \in DOMAIN known :
                                         getStartTime(known[q]) = known[q].firstSeen } |->
                              IF pid \in DOMAIN created.at THEN created.at[pid]
                              ELSE known[pid].firstSeen]]
                   ELSE created
    /\ lastTick' = [pids  |-> currentPids,
                     step4 |-> { queue[i] : i \in 1..Len(queue) },
                     ev    |-> IF pconfig.dryRun
                               THEN dryRunEvents(queue, known, now) ELSE {},
                     again |-> /\ procPhase # "firstTick"
                               /\ currentPids = lastTick.pids
                               /\ DOMAIN knownProcesses = lastTick.pids]
    /\ IF pconfig.dryRun
       THEN /\ procOut' = POut("tick", dryRunEvents(queue, known, now), now, TRUE, {})
            /\ procKills' = others
            /\ afterTick
       ELSE continueTick(known, queue, {}, now, {}, "tick", others)

ProcTick(currentProcesses) ==
    /\ procScans > 0
    /\ procScans' = procScans - 1
    /\ LET merged(known) ==
               steps4and5(currentProcesses,
                          { currentProcesses[i].pid : i \in 1..Len(currentProcesses) },
                          known, step4Pids(currentProcesses, known), clock,
                          forget(procKills, DOMAIN knownProcesses \ DOMAIN known))
       IN  merged(mergeSnapshot(currentProcesses, clock))
    /\ UNCHANGED <<pconfig, serviceStartTime, clock, stopCalled>>
    /\ UNCHANGED portVars

\* kill that leaves the record of a terminated process in the known-set
afterKill_KeepsRecord(pid, success) ==
    knownProcesses

\* kill, lines 247-253: the delete must have no effect but on this pid
afterKill_DropsAll(pid, success) ==
    IF success THEN <<>> ELSE knownProcesses

\* kill, lines 247-253: the known-set after killProcess(pid, true) has returned
afterKill(pid, success) ==
    IF success
    THEN [q \in DOMAIN knownProcesses \ {pid} |-> knownProcesses[q]]
    ELSE knownProcesses

\* kill() resumed with the result of killProcess(pid, true), and the tick that
\* awaits it goes on
ProcKilled(k, success) ==
    /\ k \in procKills
    /\ LET resumed(known, gone) ==
               /\ knownProcesses' = known
               /\ continueTick(known, k.queue, k.tried \ gone, k.now,
                               { PEv(IF success THEN "success" ELSE "error", k.pid, "") },
                               "killed", forget(procKills \ {k}, gone))
       IN  resumed(afterKill(k.pid, success), IF success THEN {k.pid} ELSE {})
    /\ created' = IF created.on /\ success
                   THEN [created EXCEPT !.at =
                           [pid \in DOMAIN created.at \ {k.pid} |-> created.at[pid]]]
                   ELSE created
    /\ UNCHANGED <<pconfig, serviceStartTime, procScans, clock>>
    /\ UNCHANGED <<lastTick, listed, stopCalled>>
    /\ UNCHANGED portVars

ProcNext ==
    \/ ProcStartNoFilter
    \/ ProcStart
    \/ ProcStop
    \/ ProcTimer
    \/ \E currentProcesses \in ProcSnapshots : ProcTick(currentProcesses)
    \/ ClockAdvance
    \/ \E k \in procKills : \E success \in BOOLEAN : ProcKilled(k, success)

\* the process reconciler on the host that lists pid 0
ProcNextWide ==
    \/ ProcStartNoFilter
    \/ ProcStart
    \/ ProcStop
    \/ ProcTimer
    \/ \E currentProcesses \in WideSnapshots : ProcTick(currentProcesses)
    \/ ClockAdvance
    \/ \E k \in procKills : \E success \in BOOLEAN : ProcKilled(k, success)

-----------------------------------------------------------------------------
(* ProcessWatcher.cleanup *)

\* the record cleanup() makes of a listed process, lines 42-47
cleanupRecord(proc, now) ==
    [pid |-> proc.pid, command |-> proc.command, firstSeen |-> now,
     creationDate |-> proc.creationDate, ppid |-> <<>>]

\* cleanupAged with the grace period of the tick's max-age step
cleanupAged_Grace(currentProcesses, now) ==
    LET pidsOf(q) == [i \in 1..Len(q) |-> q[i].pid]
    IN  pidsOf(SelectSeq(currentProcesses,
                         LAMBDA proc : maxAgeExceeded(cleanupRecord(proc, now), now)))

\* cleanup, lines 40-54: the pids of the snapshot handed to kill, in order
cleanupAged(currentProcesses, now) ==
    LET maxAgeMs == pconfig.maxAge * 60 * 1000
        aged(proc) == now - getStartTime(cleanupRecord(proc, now)) > maxAgeMs
        pidsOf(q) == [i \in 1..Len(q) |-> q[i].pid]
    IN  pidsOf(SelectSeq(currentProcesses, aged))

\* cleanup() without a maximum age: the error line and return, lines 28-31
CleanupRefused ==
    /\ procPhase = "new"
    /\ pconfig.maxAge <= 0
    /\ procPhase' = "refused"
    /\ procOut' = POut("refused", {}, 0, FALSE, {})
    /\ UNCHANGED <<pconfig, serviceStartTime, knownProcesses, procIntervalId,
                   procScans, procKills, clock>>
    /\ UNCHANGED <<lastTick, created, listed, stopCalled>>
    /\ UNCHANGED portVars

\* cleanup() up to its await getMatchingProcesses()
CleanupStart ==
    /\ procPhase = "new"
    /\ pconfig.maxAge > 0
    /\ procPhase' = "cleanup"
    /\ procScans' = procScans + 1
    /\ procOut' = POut("cleanup", {}, 0, FALSE, {})
    /\ UNCHANGED <<pconfig, serviceStartTime, knownProcesses, procIntervalId,
                   procKills, clock>>
    /\ UNCHANGED <<lastTick, created, listed, stopCalled>>
    /\ UNCHANGED portVars

\* the loop of cleanup() goes on: the next aged pid is handed to kill, which
\* suspends on killProcess, or the loop is over and cleanup() returns
cleanupContinue(queue, tried, now, evSoFar, op) ==
    IF Len(queue) > 0
    THEN /\ procKills' = { [stage |-> "cleanup", pid |-> Head(queue),
                            queue |-> Tail(queue),
                            tried |-> tried \cup {Head(queue)}, now |-> now] }
         /\ procOut' = POut(op, evSoFar \cup { PEv("killProcess", Head(queue), "cleanup") },
                             now, FALSE, tried \cup {Head(queue)})
         /\ UNCHANGED procPhase
    ELSE /\ procKills' = {}
         /\ procOut' = POut(op, evSoFar, now, TRUE, tried)
         /\ procPhase' = "cleaned"

\* cleanup() resumed with the snapshot, an empty one when no filter is given
\* (part_002 line 160); in dry-run kill() returns without suspending
CleanupScan(currentProcesses) ==
    /\ procPhase = "cleanup"
    /\ procScans > 0
    /\ Len(pconfig.filter) = 0 => currentProcesses = <<>>
    /\ procScans' = procScans - 1
    /\ listed' = IF listed.on
                  THEN [listed EXCEPT !.order =
                          [i \in 1..Len(currentProcesses) |-> currentProcesses[i].pid]]
                  ELSE listed
    /\ LET loop(queue) ==
               IF pconfig.dryRun
               THEN /\ procOut' = POut("scan",
                                       { PEv("dryRun", queue[i], "cleanup") :
                                           i \in 1..Len(queue) },
                                       clock, TRUE, { queue[i] : i \in 1..Len(queue) })
                    /\ procKills' = {}
                    /\ procPhase' = "cleaned"
               ELSE cleanupContinue(queue, {}, clock, {}, "scan")
       IN  loop(cleanupAged(currentProcesses, clock))
    /\ UNCHANGED <<pconfig, serviceStartTime, knownProcesses, procIntervalId, clock>>
    /\ UNCHANGED <<lastTick, created, stopCalled>>
    /\ UNCHANGED portVars

\* kill() resumed with the result of killProcess(pid, true), and cleanup()
\* goes on
CleanupKilled(k, success) ==
    /\ k \in procKills
    /\ k.stage = "cleanup"
    /\ knownProcesses' = afterKill(k.pid, success)
    /\ cleanupContinue(k.queue, k.tried, k.now,
                       { PEv(IF success THEN "success" ELSE "error", k.pid, "") },
                       "killed")
    /\ UNCHANGED <<pconfig, serviceStartTime, procIntervalId, procScans, clock>>
    /\ UNCHANGED <<lastTick, created, listed, stopCalled>>
    /\ UNCHANGED portVars

\* a ProcessWatcher on which cleanup() is called
CleanupNext ==
    \/ CleanupRefused
    \/ CleanupStart
    \/ \E currentProcesses \in ProcSnapshots : CleanupScan(currentProcesses)
    \/ ClockAdvance
    \/ \E k \in procKills : \E success \in BOOLEAN : CleanupKilled(k, success)

-----------------------------------------------------------------------------
(* A deployment runs one of the two reconcilers *)

\* the history variables at construction: which of them are kept
HistoryInit(stops, firstSeens, scans, orders, kills) ==
    /\ stopCalled = IF stops THEN "no" ELSE "untracked"
    /\ created = [on |-> firstSeens, at |-> <<>>]
    /\ scanOrder = [on |-> scans, overtaken |-> 0, latest |-> <<>>]
    /\ listed = [on |-> orders, order |-> <<>>]
    /\ tickKills = [on |-> kills, gates |-> {}, sent |-> {}]

Init ==
    /\ HistoryInit(FALSE, FALSE, FALSE, FALSE, FALSE)
    /\ \/ PortInit(PortConfigs, "new") /\ ProcInit({NoProcConfig}, "off")
       \/ PortInit({NoPortConfig}, "off") /\ ProcInit(ProcConfigs, "new")

Next == PortNext \/ ProcNext

Spec == Init /\ [][Next]_vars

\* the deployments that run the port reconciler
InitPort ==
    /\ HistoryInit(FALSE, FALSE, FALSE, FALSE, FALSE)
    /\ PortInit(PortConfigs, "new") /\ ProcInit({NoProcConfig}, "off")

SpecPort == InitPort /\ [][PortNext]_vars

\* the deployments that run the process reconciler
InitProc ==
    /\ HistoryInit(FALSE, FALSE, FALSE, FALSE, FALSE)
    /\ PortInit({NoPortConfig}, "off") /\ ProcInit(ProcConfigs, "new")

SpecProc == InitProc /\ [][ProcNext]_vars

\* either deployment, the port reconciler with one base port, with the calls
\* of stop() recorded
InitStops ==
    /\ HistoryInit(TRUE, FALSE, FALSE, FALSE, FALSE)
    /\ \/ /\ PortInit({ c \in PortConfigs : c.basePorts = <<3000>> }, "new")
          /\ ProcInit({NoProcConfig}, "off")
       \/ PortInit({NoPortConfig}, "off") /\ ProcInit(ProcConfigs, "new")

SpecStops == InitStops /\ [][Next]_vars

\* the process reconciler run with a maximum age, with the first record of
\* each pid recorded
InitCreated ==
    /\ HistoryInit(FALSE, TRUE, FALSE, FALSE, FALSE)
    /\ PortInit({NoPortConfig}, "off")
    /\ ProcInit({ c \in ProcConfigs : c.maxAge > 0 }, "new")

SpecCreated == InitCreated /\ [][ProcNext]_vars

\* the port reconciler run live with one base port, the chain strategy and a
\* filter, with the order of the ticks' snapshots recorded
InitScans ==
    /\ HistoryInit(FALSE, FALSE, TRUE, FALSE, FALSE)
    /\ PortInit({ c \in PortConfigs :
                    /\ c.basePorts = <<3000>>
                    /\ c.strategy = "chain"
                    /\ Len(c.filter) > 0
                    /\ ~c.dryRun }, "new")
    /\ ProcInit({NoProcConfig}, "off")

SpecScans == InitScans /\ [][PortNext]_vars

\* the port reconciler run live with one base port, the kill-base strategy and
\* a filter, with the termination requests of each tick recorded
InitKills ==
    /\ HistoryInit(FALSE, FALSE, FALSE, FALSE, TRUE)
    /\ PortInit({ c \in PortConfigs :
                    /\ c.basePorts = <<3000>>
                    /\ c.strategy = "kill-base"
                    /\ Len(c.filter) > 0
                    /\ ~c.dryRun }, "new")
    /\ ProcInit({NoProcConfig}, "off")

SpecKills == InitKills /\ [][PortNext]_vars

\* the process reconciler run without a maximum age, with the order of each
\* snapshot recorded
InitListed ==
    /\ HistoryInit(FALSE, FALSE, FALSE, TRUE, FALSE)
    /\ PortInit({NoPortConfig}, "off")
    /\ ProcInit({ c \in ProcConfigs : c.maxAge = 0 }, "new")

SpecListed == InitListed /\ [][ProcNext]_vars

\* the process reconciler run with a maximum age on the host that lists pid 0,
\* with the order of each snapshot recorded
InitWide ==
    /\ HistoryInit(FALSE, FALSE, FALSE, TRUE, FALSE)
    /\ PortInit({NoPortConfig}, "off")
    /\ ProcInit({ c \in ProcConfigs : c.maxAge > 0 }, "new")

SpecWide == InitWide /\ [][ProcNextWide]_vars

\* a ProcessWatcher on which cleanup() is called, with the order of the
\* snapshot recorded
InitCleanup ==
    /\ HistoryInit(FALSE, FALSE, FALSE, TRUE, FALSE)
    /\ PortInit({NoPortConfig}, "off")
    /\ ProcInit(ProcConfigs, "new")

SpecCleanup == InitCleanup /\ [][CleanupNext]_vars

\* Date.now() over a span in which a record made after the first minute still
\* grows older than maxAge
EvictTimePoints == TimePoints \cup {215000}

\* time passes, over the longer span
ClockAdvanceLate ==
    /\ procPhase # "off"
    /\ \E t \in EvictTimePoints : t > clock /\ clock' = t
    /\ UNCHANGED <<pconfig, serviceStartTime, knownProcesses, procIntervalId,
                   procPhase, procScans, procKills, procOut, lastTick,
                   created, listed, stopCalled>>
    /\ UNCHANGED portVars

\* getMatchingProcesses(filter) on a host that runs pids 1, 2 and 4 at most:
\* two processes of one command and parent, and one without creation timestamp
EvictPids == {1, 2, 4}
EvictSnapshots == { q \in ProcSnapshots : \A i \in 1..Len(q) : q[i].pid \in EvictPids }

\* the interval timer fires while no tick is in flight: a tick is over before
\* the interval has passed
EvictTimer ==
    /\ procScans = 0
    /\ procKills = {}
    /\ ProcTimer

\* the process reconciler started and never stopped
EvictNext ==
    \/ ProcStart
    \/ EvictTimer
    \/ \E currentProcesses \in EvictSnapshots : ProcTick(currentProcesses)
    \/ ClockAdvanceLate
    \/ \E k \in procKills : \E success \in BOOLEAN : ProcKilled(k, success)

\* start() is called; the interval timer keeps firing and every enumeration
\* returns; time advances; and a process whose termination is requested again
\* and again is terminated by one of the requests
EvictFair ==
    /\ WF_vars(ProcStart)
    /\ WF_vars(EvictTimer)
    /\ WF_vars(\E currentProcesses \in EvictSnapshots : ProcTick(currentProcesses))
    /\ WF_vars(ClockAdvanceLate)
    /\ \A p \in EvictPids :
          SF_vars(\E k \in procKills : k.pid = p /\ ProcKilled(k, TRUE))

\* the process reconciler run live with a filter and a maximum age, with the
\* first record of each pid recorded
InitEvict ==
    /\ HistoryInit(FALSE, TRUE, FALSE, FALSE, FALSE)
    /\ PortInit({NoPortConfig}, "off")
    /\ ProcInit({ c \in ProcConfigs :
                    c.maxAge > 0 /\ ~c.dryRun /\ c.filter # <<>> }, "new")

SpecEvict == InitEvict /\ [][EvictNext]_vars /\ EvictFair

-----------------------------------------------------------------------------
(* Claims about the port reconciler *)

\* the tryKill calls (termination gate entries) the last step made
gateEvents == { e \in portOut.ev : e.kind = "getProcessInfo" }

\* the termination requests the last step issued
killEvents == { e \in portOut.ev : e.kind = "killProcess" }

\* cmd contains term, compared letter by letter without regard to case
ContainsCI(cmd, term) ==
    \E k \in 0..(Len(cmd) - Len(term)) :
        \A j \in 1..Len(term) : toLowerChar(cmd[k + j]) = toLowerChar(term[j])

\* C1: the port reconciler issues killProcess for a pid only in the step that
\* receives the re-fetched process info of that pid, and only if that info is
\* present and its command contains, without regard to case, one of the filter
\* terms; with an empty filter it never does.
C1_FilterGate ==
    \A e \in killEvents :
        /\ portOut.op = "info"
        /\ portOut.h.pid = e.pid
        /\ portOut.res.found
        /\ \E i \in 1..Len(config.filter) :
               ContainsCI(portOut.res.command, config.filter[i])

\* a kill issued on a command that matches a filter term only when case is ignored
C1_Witness ==
    /\ killEvents # {}
    /\ portOut.res.command = <<"n","O","d","e">>
    /\ config.filter = << <<"p","m">>, <<"N","o">> >>

\* C3: under chain, every gate entry of a tick is for the port just below a
\* monitored port that is new in the snapshot, carries the known-set owner of
\* that port, and never the owner of the new port; and every new monitored
\* port N whose N-1 is known, at or above the base and owned by another pid
\* has its gate entry.
C3_Chain ==
    [][ (portOut'.op = "tick" /\ config.strategy = "chain") =>
          LET snap == knownPorts'
              new  == { n \in DOMAIN snap :
                          getRelevantBase(n) # -1 /\ n \notin DOMAIN knownPorts }
              g    == { e \in portOut'.ev : e.kind = "getProcessInfo" }
          IN  /\ \A e \in g :
                    /\ e.trig \in new
                    /\ e.port = e.trig - 1
                    /\ e.pid = knownPorts[e.port]
                    /\ e.pid # snap[e.trig]
              /\ \A n \in new :
                    ( /\ (n - 1) \in DOMAIN knownPorts
                      /\ knownPorts[n - 1] # snap[n]
                      /\ n - 1 >= getRelevantBase(n) )
                    => Ev("getProcessInfo", n - 1, knownPorts[n - 1], n) \in g
      ]_vars

\* the example: known {3000: 111}, snapshot {3000: 111, 3001: 222}
C3_Witness ==
    /\ portOut.op = "tick"
    /\ config.strategy = "chain"
    /\ config.basePorts = <<3000>>
    /\ knownPorts = (3000 :> 111) @@ (3001 :> 222)
    /\ gateEvents = { Ev("getProcessInfo", 3000, 111, 3001) }

\* C4: under kill-base, every gate entry of a tick is for the base port of a
\* new monitored port above that base, and every new monitored port above its
\* base whose base port is known and owned by another pid has its gate entry.
C4_KillBase ==
    [][ (portOut'.op = "tick" /\ config.strategy = "kill-base") =>
          LET snap == knownPorts'
              new  == { n \in DOMAIN snap :
                          getRelevantBase(n) # -1 /\ n \notin DOMAIN knownPorts }
              g    == { e \in portOut'.ev : e.kind = "getProcessInfo" }
          IN  /\ \A e \in g :
                    /\ e.trig \in new
                    /\ e.port = getRelevantBase(e.trig)
                    /\ e.trig > e.port
              /\ \A n \in new :
                    LET b == getRelevantBase(n)
                    IN  ( /\ n > b
                          /\ b \in DOMAIN knownPorts
                          /\ knownPorts[b] # snap[n] )
                        => Ev("getProcessInfo", b, knownPorts[b], n) \in g
      ]_vars

\* the example, two ports above the base: new port base+2 gates the base only,
\* although base+1 is listening under another pid
C4_Witness ==
    /\ portOut.op = "tick"
    /\ config.strategy = "kill-base"
    /\ knownPorts = (3000 :> 111) @@ (3001 :> 111) @@ (3002 :> 222)
    /\ gateEvents = { Ev("getProcessInfo", 3000, 111, 3002) }

\* C5: a gate entry of a tick is for a target port at or above the base of the
\* triggering port, that is a key of the known-set the tick started from, with
\* that known-set's owner, which is not the owner of the triggering port; the
\* base port itself never triggers one.
C5_Actionable ==
    [][ portOut'.op = "tick" =>
          \A e \in { x \in portOut'.ev : x.kind = "getProcessInfo" } :
              /\ e.port >= getRelevantBase(e.trig)
              /\ e.port \in DOMAIN knownPorts
              /\ e.pid = knownPorts[e.port]
              /\ e.pid # knownPorts'[e.trig]
              /\ e.trig # getRelevantBase(e.trig)
      ]_vars

\* a gate entry made where a port below the base is listening too
C5_Witness ==
    /\ portOut.op = "tick"
    /\ config.basePorts = <<3001>>
    /\ config.strategy = "chain"
    /\ DOMAIN knownPorts = {3000, 3001, 3002}
    /\ knownPorts[3000] # knownPorts[3001]
    /\ gateEvents = { Ev("getProcessInfo", 3001, 111, 3002) }

-----------------------------------------------------------------------------
(* Claims about the process reconciler *)

\* the known records grouped with the record of pid p in step 4
sameCommand(p) ==
    { q \in DOMAIN knownProcesses :
        cmdKey[knownProcesses[q].command] = cmdKey[knownProcesses[p].command] }

\* the cluster of a record: its parent pid, or the record alone without one
clusterKey(r) == IF Len(r.ppid) = 1 THEN r.ppid[1] ELSE -r.pid

clusterKeys(p) == { clusterKey(knownProcesses[q]) : q \in sameCommand(p) }

\* the earliest start time among the members of cluster k of p's command
clusterStart(p, k) ==
    Min({ getStartTime(knownProcesses[q]) :
            q \in { x \in sameCommand(p) : clusterKey(knownProcesses[x]) = k } })

\* N >= 2 processes are listed with p's command and all have p's parent pid
siblingsOnly(p) ==
    /\ Len(knownProcesses[p].ppid) = 1
    /\ Cardinality(sameCommand(p)) >= 2
    /\ \A q \in sameCommand(p) : knownProcesses[q].ppid = knownProcesses[p].ppid

\* C6 as stated: when all processes listed with a command have the same parent
\* pid, a tick requests no termination for any of them.
C6_Original ==
    procOut.op = "tick" =>
        \A p \in DOMAIN knownProcesses :
            siblingsOnly(p) =>
                \A e \in procOut.ev : ~(e.kind = "killProcess" /\ e.pid = p)

\* C6: when all N >= 2 processes listed with a command have the same parent
\* pid, the duplicate-cluster step of the tick selects none of them (the
\* max-age step may still request their termination).
C6_Siblings ==
    procOut.op = "tick" =>
        \A p \in DOMAIN knownProcesses :
            siblingsOnly(p) => p \notin lastTick.step4

\* two siblings listed together with a process of another command and parent
C6_Witness ==
    /\ procOut.op = "tick"
    /\ DOMAIN knownProcesses = {1, 2, 5}
    /\ siblingsOnly(1)
    /\ lastTick.step4 = {}

\* C7: when the records a tick lists with one command form two or more
\* clusters whose start times (the earliest start time among the members)
\* differ, step 4 selects exactly the members of every cluster but the one
\* with the latest start time, whatever the member counts.
C7_NewestCluster ==
    procOut.op = "tick" =>
        \A p \in DOMAIN knownProcesses :
            ( /\ Cardinality(clusterKeys(p)) >= 2
              /\ \A k1, k2 \in clusterKeys(p) :
                    k1 # k2 => clusterStart(p, k1) # clusterStart(p, k2) )
            => LET newest == CHOOSE k \in clusterKeys(p) :
                                \A k2 \in clusterKeys(p) :
                                    clusterStart(p, k2) <= clusterStart(p, k)
               IN  (p \in lastTick.step4) <=> (clusterKey(knownProcesses[p]) # newest)

\* the older cluster has two members, one of them started after the single
\* member of the newer cluster: both are selected, the newer cluster is kept
C7_Witness ==
    /\ procOut.op = "tick"
    /\ DOMAIN knownProcesses = {1, 2, 3}
    /\ lastTick.step4 = {1, 2}

\* the age step 5 compares with maxAge, in ms
ageOf(p, now) ==
    now - (IF getStartTime(knownProcesses[p]) >= serviceStartTime
           THEN getStartTime(knownProcesses[p]) ELSE serviceStartTime)

\* C8: a tick hands a known record to kill for age only if maxAge > 0 and
\* now - max(startTime(record), watcherStartTime) > maxAge minutes, hence only
\* when now - watcherStartTime > maxAge minutes; and when the tick returns,
\* every known record of that age has been handed to kill for age.
C8_MaxAge ==
    /\ \A e \in procOut.ev :
          e.why = "maxAge" =>
              /\ pconfig.maxAge > 0
              /\ e.pid \in DOMAIN knownProcesses
              /\ ageOf(e.pid, procOut.now) > pconfig.maxAge * 60000
              /\ procOut.now - serviceStartTime > pconfig.maxAge * 60000
    /\ procOut.ret =>
          \A p \in DOMAIN knownProcesses :
              (pconfig.maxAge > 0 /\ ageOf(p, procOut.now) > pconfig.maxAge * 60000)
              => IF pconfig.dryRun
                 THEN PEv("dryRun", p, "maxAge") \in procOut.ev
                 ELSE p \in procOut.tried

\* a process created before the watcher started is handed to kill for age
\* once the watcher itself has run for more than maxAge
C8_Witness ==
    /\ PEv("killProcess", 1, "maxAge") \in procOut.ev
    /\ getStartTime(knownProcesses[1]) < serviceStartTime
    /\ procOut.now = 150001

\* C9 as stated, for a watcher that does kill: a tick whose snapshot lists the
\* pids the snapshot of the tick before listed requests no termination in its
\* duplicate-cluster step.
C9_Original ==
    [][ (procScans' = procScans - 1 /\ procPhase # "firstTick" /\ ~pconfig.dryRun
            /\ lastTick'.pids = lastTick.pids)
        => lastTick'.step4 = {} ]_vars

\* C9: the duplicate-cluster step looks at the records of the tick's own
\* snapshot only.  A tick whose snapshot lists the pids of the tick before,
\* none of them deleted in between, selects the same pids again; a tick whose
\* records form at most one cluster per command selects none.
C9_LevelTriggered ==
    [][ procScans' = procScans - 1 =>
          /\ lastTick'.again => lastTick'.step4 = lastTick.step4
          /\ (\A p \in DOMAIN knownProcesses' :
                 Cardinality({ clusterKey(knownProcesses'[q]) :
                                 q \in { x \in DOMAIN knownProcesses' :
                                           cmdKey[knownProcesses'[x].command] =
                                           cmdKey[knownProcesses'[p].command] } }) <= 1)
             => lastTick'.step4 = {}
      ]_vars

\* a live tick on the pids of the tick before, whose kill had failed, selects
\* the old cluster again
C9_Witness ==
    /\ procOut.op = "tick"
    /\ ~pconfig.dryRun
    /\ lastTick.again
    /\ lastTick.step4 # {}

-----------------------------------------------------------------------------
(* Claims about both reconcilers *)

\* C2: with dry-run enabled no step of either reconciler calls killProcess and
\* none awaits it, and the process known-set holds exactly the pids the latest
\* snapshot listed.
C2_DryRun ==
    /\ config.dryRun =>
          /\ \A e \in portOut.ev : e.kind # "killProcess"
          /\ \A h \in BagToSet(portHandlers) : h.stage # "kill"
    /\ pconfig.dryRun =>
          /\ \A e \in procOut.ev : e.kind # "killProcess"
          /\ procKills = {}
          /\ DOMAIN knownProcesses = lastTick.pids

\* a dry-run tick that logs pid 1 both as old cluster and for age; it stays known
C2_Witness ==
    /\ pconfig.dryRun
    /\ PEv("dryRun", 1, "cluster") \in procOut.ev
    /\ PEv("dryRun", 1, "maxAge") \in procOut.ev
    /\ 1 \in DOMAIN knownProcesses

\* C10 as stated: with dry-run enabled a logged kill target is in the
\* known-set when the following tick starts, and that tick logs it again (the
\* port reconciler: sends it to the gate again) if its snapshot still lists it.
C10_Original ==
    [][ /\ (procScans' = procScans - 1 /\ pconfig.dryRun) =>
              \A e \in lastTick.ev :
                  /\ e.pid \in DOMAIN knownProcesses
                  /\ e.pid \in lastTick'.pids =>
                         \E e2 \in lastTick'.ev : e2.pid = e.pid
        /\ (portScans' = portScans - 1 /\ config.dryRun) =>
              \A t \in portLogged :
                  /\ t.port \in DOMAIN knownPorts /\ knownPorts[t.port] = t.pid
                  /\ (t.port \in DOMAIN knownPorts' /\ knownPorts'[t.port] = t.pid) =>
                         \E e \in portOut'.ev :
                             e.kind = "getProcessInfo" /\ e.port = t.port /\ e.pid = t.pid
      ]_vars

\* C10: with dry-run enabled, logging a kill target changes neither known-set.
\* Process reconciler: the logged pid is in the known-set when the following
\* tick starts, and that tick logs it again, for the same reason, when its
\* snapshot lists the same pids.  Port reconciler: the step that logs leaves
\* the known-set as it is, and the following tick sends the logged target to
\* the gate again only if its snapshot has a monitored port the known-set
\* lacks, whose strategy target it is.
C10_DryRunKeeps ==
    [][ /\ (procScans' = procScans - 1 /\ pconfig.dryRun) =>
              \A e \in lastTick.ev :
                  /\ e.pid \in DOMAIN knownProcesses
                  /\ lastTick'.pids = lastTick.pids => e \in lastTick'.ev
        /\ (portOut'.op = "info" /\ config.dryRun) => knownPorts' = knownPorts
        /\ (portScans' = portScans - 1 /\ config.dryRun) =>
              \A t \in portLogged :
                  (\E e \in portOut'.ev :
                      e.kind = "getProcessInfo" /\ e.port = t.port /\ e.pid = t.pid)
                  => \E n \in DOMAIN knownPorts' \ DOMAIN knownPorts :
                        /\ getRelevantBase(n) # -1
                        /\ IF config.strategy = "chain"
                           THEN t.port = n - 1
                           ELSE t.port = getRelevantBase(n) /\ n > t.port
      ]_vars

\* a dry-run tick on the pids of the tick before logs its kill targets again
C10_Witness ==
    /\ procOut.op = "tick"
    /\ pconfig.dryRun
    /\ lastTick.again
    /\ PEv("dryRun", 1, "cluster") \in lastTick.ev
    /\ PEv("dryRun", 1, "cluster") \in procOut.ev

-----------------------------------------------------------------------------
(* The termination gate of the process reconciler *)

\* C11: a termination request is issued only by the step that resumes from
\* the re-fetch of the target's process info (where an absent process and a
\* command outside the filter are skipped), in the process reconciler as in
\* the port reconciler.
C11_Gate ==
    /\ \A e \in procOut.ev : e.kind = "killProcess" => procOut.op = "info"
    /\ \A e \in portOut.ev : e.kind = "killProcess" => portOut.op = "info"

\* C12: in live mode, the step that resumes kill() with a success of
\* killProcess removes that pid from the known-set and leaves every other
\* record as it was; with a failure it leaves the known-set as it was.  A pid
\* selected by the duplicate-cluster step and still known when the next tick
\* starts (its kill failed) is selected again by that tick when its snapshot
\* lists it and a cluster of its command has a later start time than its own.
C12_LiveOutcome ==
    [][ /\ (procOut'.op = "killed" /\ clock' = clock) =>
              \A e \in procOut'.ev :
                  /\ e.kind = "success" =>
                        knownProcesses' =
                            [q \in DOMAIN knownProcesses \ {e.pid} |-> knownProcesses[q]]
                  /\ e.kind = "error" => knownProcesses' = knownProcesses
        /\ (procScans' = procScans - 1 /\ ~pconfig.dryRun) =>
              \A p \in (lastTick.step4 \cap DOMAIN knownProcesses) \cap lastTick'.pids :
                  (\E k \in clusterKeys(p)' :
                      clusterStart(p, k)' >
                          clusterStart(p, clusterKey(knownProcesses[p]))')
                  => p \in lastTick'.step4
      ]_vars

\* pids 1 and 2 were selected against pid 3: the kill of 1 failed and it is
\* still known, the kill of 2 succeeded and only its record is gone
C12_Witness ==
    /\ procOut.op = "killed"
    /\ procOut.ret
    /\ PEv("success", 2, "") \in procOut.ev
    /\ lastTick.step4 = {1, 2}
    /\ DOMAIN knownProcesses = {1, 3}

\* C13: within one process tick at most one termination request is issued
\* per pid: no request of the max-age step is for a pid the duplicate-cluster
\* step of the same tick has already requested to terminate.
C13_NoRetry ==
    \A e \in procOut.ev :
        (e.kind = "killProcess" /\ e.why = "maxAge") => e.pid \notin lastTick.step4

-----------------------------------------------------------------------------
(* The scheduler *)

\* C14: for both reconcilers a tick is started only when no earlier tick is
\* suspended on the snapshot enumeration, on a process lookup or on a
\* termination request.
C14_NoOverlap ==
    [][ /\ portScans' = portScans + 1 => portScans = 0 /\ portHandlers = EmptyBag
        /\ procScans' = procScans + 1 => procScans = 0 /\ procKills = {}
      ]_vars

\* C15: once stop() has been called on a started watcher, at whatever moment
\* (during the initial pass of start(), between ticks, during a tick), no
\* tick is started afterwards.
C15_StopCancels ==
    [][ stopCalled = "yes" =>
            /\ portScans' <= portScans
            /\ procScans' <= procScans
      ]_vars

C17_Contained ==
    [][ /\ (procScans' = procScans - 1 /\ lastTick'.pids = {}) =>
              /\ procOut'.ev = {}
              /\ procOut'.ret
              /\ \A k \in procKills' :
                    \E j \in procKills : j.pid = k.pid /\ j.stage = k.stage
              /\ knownProcesses' = <<>>
              /\ procIntervalId' = (procIntervalId \/ procPhase = "firstTick")
        /\ (portScans' = portScans - 1 /\ knownPorts' = <<>>) =>
              /\ portOut'.ev = {}
              /\ portHandlers' = portHandlers
              /\ portIntervalId' = portIntervalId
        /\ (procIntervalId /\ ~procIntervalId') => procOut'.op = "stop"
        /\ (portIntervalId /\ ~portIntervalId') => portOut'.op = "stop"
      ]_vars

\* an interval-driven tick of a watcher with a maximum age, run more than
\* maxAge after the start, has got an empty snapshot: nothing is requested,
\* nothing is known, the interval is still armed
C17_Witness ==
    /\ procOut.op = "tick"
    /\ procPhase = "started"
    /\ pconfig.maxAge = 1
    /\ ~pconfig.dryRun
    /\ procOut.now = 150001
    /\ lastTick.pids = {}
    /\ lastTick.again = FALSE
    /\ procOut.ev = {}
    /\ knownProcesses = <<>>
    /\ procIntervalId

\* C18: a watcher given no filter never enters the loop: no tick takes a
\* snapshot, no interval is armed, no termination is requested; for the
\* process reconciler and for the port reconciler.
C18_FatalConfig ==
    /\ (procPhase # "off" /\ Len(pconfig.filter) = 0) =>
          /\ procScans = 0
          /\ ~procIntervalId
          /\ \A e \in procOut.ev : e.kind # "killProcess"
    /\ (portPhase # "off" /\ Len(config.filter) = 0) =>
          /\ portScans = 0
          /\ ~portIntervalId
          /\ \A e \in portOut.ev : e.kind # "killProcess"

-----------------------------------------------------------------------------
(* The known-set of the process reconciler *)

\* C19: the known-set holds one record per pid, filed under that pid; every
\* pid of the known-set is a pid of the snapshot of the latest tick, from the
\* step in which that tick has merged its snapshot on; and that step requests
\* or logs no termination for a pid its snapshot does not list.
C19_KnownSet ==
    /\ \A p \in DOMAIN knownProcesses : knownProcesses[p].pid = p
    /\ DOMAIN knownProcesses \subseteq lastTick.pids
    /\ procOut.op = "tick" => \A e \in procOut.ev : e.pid \in lastTick.pids

\* a dry-run tick whose snapshot lists pid 1 only: pid 4, which an earlier
\* tick had put in the known-set, is no longer in it
C19_Witness ==
    /\ procOut.op = "tick"
    /\ pconfig.dryRun
    /\ 4 \in DOMAIN created.at
    /\ lastTick.pids = {1}
    /\ DOMAIN knownProcesses = {1}

\* C20 as stated, for a watcher that kills nothing (dry-run), so that no
\* listed process has been terminated by it: the firstSeen used for a pid is
\* the firstSeen of the first record the watcher made for it (checked for the
\* pids whose start time is their firstSeen).
C20_Original ==
    pconfig.dryRun =>
        \A p \in DOMAIN knownProcesses \cap DOMAIN created.at :
            knownProcesses[p].firstSeen = created.at[p]

\* C20: a record is never changed while its pid stays in the known-set: its
\* firstSeen, command, parent pid and creation timestamp are those it was
\* created with.  A pid that enters the known-set, for the first time or after
\* a snapshot that did not list it or a successful kill, gets a new record
\* whose firstSeen is the time of that tick, never earlier than the firstSeen
\* of the first record made for the pid.
C20_RecordKept ==
    [][ /\ \A p \in DOMAIN knownProcesses \cap DOMAIN knownProcesses' :
              knownProcesses'[p] = knownProcesses[p]
        /\ \A p \in DOMAIN knownProcesses' \ DOMAIN knownProcesses :
              /\ procScans' = procScans - 1
              /\ knownProcesses'[p].firstSeen = clock
              /\ p \in DOMAIN created.at => created.at[p] <= clock
      ]_vars

\* pid 4 is known with a firstSeen later than that of the first record made
\* for it: a snapshot in between did not list it
C20_Witness ==
    /\ 4 \in DOMAIN knownProcesses
    /\ 4 \in DOMAIN created.at
    /\ knownProcesses[4].firstSeen > created.at[4]

-----------------------------------------------------------------------------
(* The diff of the port reconciler *)

\* C21: a port that is in the known-set and in the snapshot of a tick, with
\* another owner pid or the same, triggers nothing: no gate entry of the tick
\* has it as its trigger, and a tick whose snapshot has no port the known-set
\* lacks starts no lookup at all; the known-set after the tick records the
\* owner the snapshot reports.
C21_RestartNoTrigger ==
    [][ portOut'.op = "tick" =>
          /\ \A e \in { x \in portOut'.ev : x.kind = "getProcessInfo" } :
                e.trig \notin DOMAIN knownPorts
          /\ DOMAIN knownPorts' \subseteq DOMAIN knownPorts =>
                /\ \A e \in portOut'.ev : e.kind = "pidChanged"
                /\ portHandlers' = portHandlers
          /\ \A e \in { x \in portOut'.ev : x.kind = "pidChanged" } :
                /\ e.port \in DOMAIN knownPorts
                /\ knownPorts[e.port] = e.trig
                /\ knownPorts'[e.port] = e.pid
                /\ e.pid # e.trig
      ]_vars

\* port 3001 was owned by pid 111 and is now owned by pid 222, next to port
\* 3000 owned by 111: the tick reports the change and nothing else
C21_Witness ==
    /\ portOut.op = "tick"
    /\ portOut.ev = { Ev("pidChanged", 3001, 222, 111) }
    /\ knownPorts = (3000 :> 111) @@ (3001 :> 222)
    /\ config.strategy = "chain"
    /\ config.basePorts = <<3000>>

\* C22: at every moment the known-set is the snapshot of the most recently
\* started tick among the ticks that have got their snapshot (the startup
\* scan before any), also when the enumerations of successive ticks complete
\* in another order than they were started.
C22_LatestSnapshot == knownPorts = scanOrder.latest

\* the base ports whose window [base, base + range] contains port p
windowsOf(p) ==
    { config.basePorts[i] : i \in 1..Len(config.basePorts) } \cap
        { b \in (p - config.range)..p : TRUE }

\* C23: the relevant base of a port is a configured base whose window
\* contains the port, and there is none exactly when no window contains it; a
\* tick sends a target to the gate only for a new port that lies in a window,
\* and the target lies in the window of the base relevant to that port.
C23_Windows ==
    [][ /\ \A p \in PortUniverse :
              IF windowsOf(p) = {} THEN getRelevantBase(p) = -1
              ELSE getRelevantBase(p) \in windowsOf(p)
        /\ portOut'.op = "tick" =>
              \A e \in { x \in portOut'.ev : x.kind = "getProcessInfo" } :
                  /\ windowsOf(e.trig) # {}
                  /\ e.trig \notin DOMAIN knownPorts
                  /\ e.port >= getRelevantBase(e.trig)
                  /\ e.port <= getRelevantBase(e.trig) + config.range
        /\ (portOut'.op = "tick" /\
              \A n \in DOMAIN knownPorts' \ DOMAIN knownPorts : windowsOf(n) = {}) =>
                  /\ \A e \in portOut'.ev : e.kind # "getProcessInfo"
                  /\ portHandlers' = portHandlers
      ]_vars

\* two windows sharing port 3001: new port 3002 has base 3001 and sends port
\* 3001 to the gate, while port 3000, in the other window, is listening too
C23_Witness ==
    /\ portOut.op = "tick"
    /\ config.basePorts = <<3001, 3000>>
    /\ config.strategy = "chain"
    /\ knownPorts = (3000 :> 111) @@ (3001 :> 111) @@ (3002 :> 222)
    /\ gateEvents = { Ev("getProcessInfo", 3001, 111, 3002) }


-----------------------------------------------------------------------------
(* The clusters of a command *)

\* the place in the latest snapshot of the first listed member of cluster k of
\* p's command
clusterPlace(p, k) ==
    Min({ i \in 1..Len(listed.order) :
            /\ listed.order[i] \in sameCommand(p)
            /\ clusterKey(knownProcesses[listed.order[i]]) = k })

listedWith(p) ==
    SelectSeq([i \in 1..Len(listed.order) |-> knownProcesses[listed.order[i]]],
              LAMBDA r : cmdKey[r.command] = cmdKey[knownProcesses[p].command])

\* the clusters of cl that hold the record r
clustersWith(cl, r) ==
    { c \in 1..Len(cl) : \E j \in 1..Len(cl[c].members) : cl[c].members[j] = r }

-----------------------------------------------------------------------------
(* The start time of a record *)

\* the string begins with 14 digits
usableDate(cd) == Len(cd) >= 14 /\ \A i \in 1..14 : isDigit(cd[i])

\* C26: the start time of every record a tick holds is the time its creation
\* timestamp stands for when that string begins with 14 digits, whatever
\* follows them, and the record's firstSeen otherwise; a record without such a
\* timestamp has age zero in the tick that makes it, and that tick does not
\* hand it to kill for its age.
C26_StartTime ==
    [][ procScans' = procScans - 1 =>
          \A p \in DOMAIN knownProcesses' :
              LET r == knownProcesses'[p]
                  start == getStartTime(r)
              IN  IF usableDate(r.creationDate)
                  THEN start = parseCreationDate(SubSeq(r.creationDate, 1, 14))
                  ELSE /\ start = r.firstSeen
                       /\ p \notin DOMAIN knownProcesses =>
                            /\ clock - (IF start >= serviceStartTime
                                        THEN start ELSE serviceStartTime) = 0
                            /\ \A e \in procOut'.ev : e.pid = p => e.why # "maxAge" ]_vars

\* a tick with a maximum age has made the record of a process whose creation
\* date is cut off, and holds a record created a minute before the epoch with
\* a fraction and a timezone behind the 14 digits
C26_Witness ==
    /\ procOut.op = "tick"
    /\ pconfig.maxAge > 0
    /\ DOMAIN knownProcesses = {6, 7}
    /\ knownProcesses[7].firstSeen = clock
    /\ getStartTime(knownProcesses[7]) = clock
    /\ Len(knownProcesses[6].creationDate) > 14
    /\ getStartTime(knownProcesses[6]) = -60000


-----------------------------------------------------------------------------
(* The triggers of the port reconciler *)

\* C27: a tick sends a target to the gate only for a port its snapshot lists
\* and the known-set lacks, and at most one target for each such port; a tick
\* whose snapshot lists no port the known-set lacks sends nothing to the gate
\* and starts no tryKill, whatever became of the targets of earlier ticks.
C27_EdgeTriggered ==
    [][ portScans' = portScans - 1 =>
          LET requests == { x \in portOut'.ev : x.kind = "getProcessInfo" }
          IN  /\ \A e \in requests :
                    e.trig \in DOMAIN knownPorts' \ DOMAIN knownPorts
              /\ \A e1, e2 \in requests : e1.trig = e2.trig => e1 = e2
              /\ BagCardinality(portHandlers') =
                    BagCardinality(portHandlers) + Cardinality(requests)
              /\ DOMAIN knownPorts' \subseteq DOMAIN knownPorts => requests = {}
      ]_vars

\* ports 3000 and 3001 were known and are listed again, each with the pid the
\* other had: the tick sends nothing to the gate
C27_Witness ==
    /\ portOut.op = "tick"
    /\ config.strategy = "chain"
    /\ config.basePorts = <<3000>>
    /\ knownPorts = (3000 :> 111) @@ (3001 :> 222)
    /\ portOut.ev = { Ev("pidChanged", 3000, 111, 222), Ev("pidChanged", 3001, 222, 111) }


\* C28: a tick that finds the known-set empty sends nothing to the gate and
\* starts no tryKill, whatever its snapshot lists and whatever the strategy;
\* and neither does the initial scan of start().
C28_EmptyKnownSet ==
    [][ /\ (portScans' = portScans - 1 /\ knownPorts = <<>>) =>
              /\ \A e \in portOut'.ev : e.kind = "detected"
              /\ portHandlers' = portHandlers
        /\ (portPhase = "scanning" /\ portPhase' = "started") =>
              /\ portOut'.ev = {}
              /\ portHandlers' = EmptyBag
      ]_vars

\* kill-base with base 3000: the three ports of the window are all new to a
\* tick, so the known-set had none of them, and the tick sends nothing to the
\* gate although ports 3001 and 3002 have another owner than the base port
C28_Witness ==
    /\ portOut.op = "tick"
    /\ config.strategy = "kill-base"
    /\ config.basePorts = <<3000>>
    /\ knownPorts = (3000 :> 111) @@ (3001 :> 222) @@ (3002 :> 222)
    /\ portOut.ev = { Ev("detected", 3000, 111, 3000), Ev("detected", 3001, 222, 3000),
                      Ev("detected", 3002, 222, 3000) }


\* C29: of the tryKill calls one tick makes, no two request the termination of
\* the same pid, also when several new ports of the snapshot have the same
\* target.
C29_OncePerTick ==
    \A r1, r2 \in tickKills.sent : r1.pid = r2.pid => r1 = r2


\* C30: when the snapshot of a tick lists the target port of one of its
\* tryKill calls, the pid whose termination that call requests is the owner
\* the snapshot reports for the port; a pid that owned the port in the
\* previous snapshot and has lost it to another is not requested to terminate.
C30_CurrentOwner ==
    \A r \in tickKills.sent :
        r.port \in DOMAIN knownPorts => knownPorts[r.port] = r.pid


-----------------------------------------------------------------------------
(* cleanup() *)

\* the process the table lists with pid p
procOf(p) == CHOOSE x \in ProcTable : x.pid = p

\* the time the creation date of p stands for, none when it has no usable one
createdAt(p) ==
    IF usableDate(procOf(p).creationDate)
    THEN { parseCreationDate(SubSeq(procOf(p).creationDate, 1, 14)) }
    ELSE {}

\* the pids of the latest snapshot created more than maxAge minutes before now
agedAt(now) ==
    { p \in { listed.order[i] : i \in 1..Len(listed.order) } :
        \E t \in createdAt(p) : now - t > pconfig.maxAge * 60 * 1000 }

\* the pids cleanup() has handed to kill and those it still will
handedOrQueued(k) == k.tried \cup { k.queue[i] : i \in 1..Len(k.queue) }

\* C31: cleanup() without a maximum age takes no snapshot and hands nothing to
\* kill; with one it takes one snapshot and hands to kill exactly the listed
\* processes created more than maxAge minutes before the time of the scan,
\* whenever the watcher was constructed, and never a process without a usable
\* creation date; it arms no interval.
C31_Cleanup ==
    /\ ~procIntervalId
    /\ pconfig.maxAge <= 0 =>
          /\ procPhase \in {"new", "refused"}
          /\ procScans = 0 /\ procKills = {} /\ procOut.ev = {}
    /\ \A e \in procOut.ev :
          e.kind \in {"killProcess", "dryRun"} =>
              /\ e.pid \in agedAt(procOut.now)
              /\ createdAt(e.pid) # {}
              /\ e.kind = "dryRun" <=> pconfig.dryRun
    /\ \A k \in procKills : handedOrQueued(k) = agedAt(k.now)
    /\ procPhase = "cleaned" =>
          /\ procOut.tried = agedAt(procOut.now)
          /\ procScans = 0 /\ procKills = {}

\* a live cleanup() scanning at 150001 has listed pid 4 (no creation date),
\* pid 3 (created at 59000, before the watcher was constructed) and pid 2
\* (created at 120000): it has handed pid 3 to kill alone and has returned
C31_Witness ==
    /\ procPhase = "cleaned"
    /\ ~pconfig.dryRun
    /\ listed.order = <<4, 3, 2>>
    /\ procOut.now = 150001
    /\ procOut.tried = {3}
    /\ procOut.op = "killed"

-----------------------------------------------------------------------------
(* Eventual eviction *)

\* the last time of the span
lastTime == CHOOSE t \in EvictTimePoints : \A u \in EvictTimePoints : u <= t

\* pid p is known under a record that is older than maxAge at the end of the span
growsOld(p) ==
    /\ p \in DOMAIN knownProcesses
    /\ ageOf(p, lastTime) > pconfig.maxAge * 60 * 1000

====
